---- MODULE Spec2Model ----
(***************************************************************************)
(* vpower: the battery-telemetry daemon of src/main.rs and the PD sensor   *)
(* binding of src/sensors.rs, as a state machine.                          *)
(*                                                                         *)
(* One iteration ("tick") of the loop of main() is split at the places     *)
(* where the code has an externally visible effect:                        *)
(*   Tick      lines 232-372  read the telemetry, derive the tick's values *)
(*   Publish   lines 374-384  write the derived values to /run/vpower      *)
(*   Decide    line  387      the force-shutdown test                      *)
(*   Grace     lines 388-390  the sleep before the shutdown                *)
(*   Poweroff  lines 392-399  the poweroff command                         *)
(*   UpdatePrev lines 402-404, Sleep line 407                              *)
(* SpecAtomic takes the writes of Publish one file system call at a time   *)
(* (PublishCall, CreateDir, CreateDot, WriteDot, Rename, PublishReturn),   *)
(* with a reader of /run/vpower and the process killed in between.         *)
(*                                                                         *)
(* f64 values are modelled exactly: a finite value is a sign and a reduced *)
(* fraction (so that -0.0 exists), and infinities and NaN are values of    *)
(* their own.  Rounding and overflow of finite results are not modelled;   *)
(* the readings are small integers.                                        *)
(***************************************************************************)
EXTENDS Integers, FiniteSets, Sequences, TLC

----------------------------------------------------------------------------
(* f64 and Option<f64>                                                     *)

RECURSIVE Gcd(_, _)
Gcd(a, b) == IF b = 0 THEN a ELSE Gcd(b, a % b)

\* Option::None of an Option<f64>.
None == [k |-> "none", s |-> 1, n |-> 0, d |-> 0]
NaN == [k |-> "nan", s |-> 1, n |-> 0, d |-> 0]
Inf(s) == [k |-> "inf", s |-> s, n |-> 1, d |-> 0]

\* The finite f64 of sign s and magnitude n/d (d > 0), in lowest terms.
Fin(s, n, d) ==
    LET g == Gcd(n, d)
    IN [k |-> "fin", s |-> s, n |-> n \div g, d |-> d \div g]

\* An integer as f64.
Num(i) == IF i < 0 THEN Fin(-1, -i, 1) ELSE Fin(1, i, 1)

IsSome(x) == x.k # "none"
IsFinite(x) == x.k = "fin"
IsZero(x) == x.k = "fin" /\ x.n = 0

\* f64 multiplication.
Mul(a, b) ==
    IF a.k = "nan" \/ b.k = "nan" THEN NaN
    ELSE IF a.k = "inf" \/ b.k = "inf"
         THEN IF IsZero(a) \/ IsZero(b) THEN NaN ELSE Inf(a.s * b.s)
         ELSE Fin(a.s * b.s, a.n * b.n, a.d * b.d)

\* f64 division: x/0 is an infinity, 0/0 and inf/inf are NaN.
Div(a, b) ==
    IF a.k = "nan" \/ b.k = "nan" THEN NaN
    ELSE IF a.k = "inf"
         THEN IF b.k = "inf" THEN NaN ELSE Inf(a.s * b.s)
         ELSE IF b.k = "inf" THEN Fin(a.s * b.s, 0, 1)
         ELSE IF b.n = 0
              THEN IF a.n = 0 THEN NaN ELSE Inf(a.s * b.s)
              ELSE Fin(a.s * b.s, a.n * b.d, a.d * b.n)

\* f64 subtraction; an exact zero result is +0.0 unless it is (-0.0) - (+0.0).
Sub(a, b) ==
    IF a.k = "nan" \/ b.k = "nan" THEN NaN
    ELSE IF a.k = "inf"
         THEN IF b.k = "inf" /\ b.s = a.s THEN NaN ELSE a
         ELSE IF b.k = "inf" THEN Inf(-b.s)
         ELSE LET v == a.s * a.n * b.d - b.s * b.n * a.d
              IN IF v = 0
                 THEN Fin(IF a.s = -1 /\ b.s = 1 THEN -1 ELSE 1, 0, 1)
                 ELSE IF v < 0 THEN Fin(-1, -v, a.d * b.d)
                      ELSE Fin(1, v, a.d * b.d)

\* f64::partial_cmp: "Less", "Equal", "Greater", or "None" when unordered.
PartialCmp(a, b) ==
    IF a.k = "nan" \/ b.k = "nan" THEN "None"
    ELSE IF a.k = "inf" /\ b.k = "inf"
         THEN IF a.s = b.s THEN "Equal" ELSE IF a.s < b.s THEN "Less" ELSE "Greater"
         ELSE IF a.k = "inf" THEN IF a.s = 1 THEN "Greater" ELSE "Less"
         ELSE IF b.k = "inf" THEN IF b.s = 1 THEN "Less" ELSE "Greater"
         ELSE LET v == a.s * a.n * b.d - b.s * b.n * a.d
              IN IF v = 0 THEN "Equal" ELSE IF v < 0 THEN "Less" ELSE "Greater"

Gt(a, b) == PartialCmp(a, b) = "Greater"
Lt(a, b) == PartialCmp(a, b) = "Less"
Ge(a, b) == PartialCmp(a, b) \in {"Greater", "Equal"}
Le(a, b) == PartialCmp(a, b) \in {"Less", "Equal"}
\* f64 ==: -0.0 == 0.0, NaN equals nothing.
Eq(a, b) == PartialCmp(a, b) = "Equal"

\* f64::to_string as the text of a published file: "NaN", "inf", "-inf", and
\* for a finite value its sign and digits, the digits written here as the
\* reduced fraction they denote ("-0" for -0.0).
F64ToString(x) ==
    IF x.k = "nan" THEN "NaN"
    ELSE IF x.k = "inf" THEN (IF x.s = 1 THEN "inf" ELSE "-inf")
    ELSE (IF x.s = -1 THEN "-" ELSE "")
         \o ToString(x.n)
         \o (IF x.d = 1 THEN "" ELSE "/" \o ToString(x.d))

----------------------------------------------------------------------------
(* Files of sysfs and readings of libsensors, as the environment gives     *)
(* them in one tick.                                                       *)

\* Option::None of an Option<String> / Option<&str>.
NoneStr == "<None>"
\* The local `ac` in a tick that does not read the online file.
Unread == "<unread>"
\* Option::None of an Option<u8> / Option<u32>.
NoneInt == -1

\* A file that cannot be read (fs::read_to_string returns Err).
Missing == [f |-> "missing", text |-> "", v |-> None, i |-> NoneInt]
\* A readable file whose text does not parse as a number.
Garbage == [f |-> "text", text |-> "garbage", v |-> None, i |-> NoneInt]
\* A readable file holding the f64 x followed by a newline ("inf" and "NaN"
\* parse as f64 too).
NumFile(x) == [f |-> "text", text |-> "number", v |-> x, i |-> NoneInt]
\* A readable file holding the unsigned integer i followed by a newline.
IntFile(i) == [f |-> "text", text |-> "integer", v |-> None, i |-> i]
\* A readable file holding the string t followed by a newline.
StrFile(t) == [f |-> "text", text |-> t, v |-> None, i |-> NoneInt]

\* A reading of sensors_get_value: an error code, or 0 and the value.
SensorErr == [rc |-> 1, v |-> None]
SensorVal(x) == [rc |-> 0, v |-> x]

----------------------------------------------------------------------------
(* State                                                                   *)

VARIABLES
    pc,                     \* where main() is: "tick", "publish", "decide",
                            \* "grace", "poweroff", "update", "sleep",
                            \* "exited" (main returned), "panicked",
                            \* "interrupted" (killed during the writes)
    files_named_charge,     \* main.rs:159  charge_* (TRUE) or energy_* files
    files_named_current,    \* main.rs:177  current_now (TRUE) or power_now file
    request_shutdown_battery_percent,   \* main.rs:197
    force_shutdown_timeout_secs,        \* main.rs:198
    sensors,                \* sensors.rs:121  the Sensors struct
    failed,                 \* main.rs:24   paths whose read failure was reported
    stderr_missing,         \* paths reported as unreadable by the current tick
    read_errs,              \* paths whose read failed in the current tick
    prev_ac_status,         \* main.rs:224
    prev_battery_percent,   \* main.rs:225
    \* the readings of the current tick (main.rs:233-255, 291)
    charge_full, charge_now, current_now, power_now_from_file,
    pdam, pdcs, pdvl, status, voltage_min_design, voltage_now, ac,
    \* the derived values of the current tick (main.rs:258-372)
    charge_shutdown, power_now, ac_status, battery_percent, battery_status,
    secs_until_battery_full, secs_until_shutdown_request,
    run_vpower,             \* the files of /run/vpower: key -> text or NoFile
    poweroff,               \* the poweroff invocations so far, as a sequence
                            \* of outcomes "spawn_err", "nonzero", "success"
    \* the position inside the writes of lines 376-384, where they are taken
    \* one file system call at a time
    wkey,                   \* the write in progress: 0 (none yet) or 1..5
    wstep,                  \* the next call of write_str: "idle" (returned),
                            \* "mkdir", "create", "write", "rename"
    wold,                   \* the key's file when the write in progress began
    seen                    \* what a reader of /run/vpower last read

config == <<files_named_charge, files_named_current,
            request_shutdown_battery_percent, force_shutdown_timeout_secs,
            sensors>>
prev == <<prev_ac_status, prev_battery_percent>>
readings == <<charge_full, charge_now, current_now, power_now_from_file,
              pdam, pdcs, pdvl, status, voltage_min_design, voltage_now, ac>>
derived == <<charge_shutdown, power_now, ac_status, battery_percent,
             battery_status, secs_until_battery_full,
             secs_until_shutdown_request>>
writer == <<wkey, wstep, wold>>
vars == <<pc, config, failed, stderr_missing, read_errs, prev, readings,
          derived, run_vpower, poweroff, writer, seen>>

----------------------------------------------------------------------------
(* TelemetryNormalizer: main.rs:23-66                                      *)

\* The path read for a battery variable (main.rs:28, 42).
BatPath(var_name) == "BAT/" \o var_name
AcPath(var_name) == "AC/" \o var_name

\* read_battery_f64's result for the file's content (main.rs:43-65).
ReadBatteryF64(file) ==
    IF file.f = "missing" THEN None
    ELSE IF file.text # "number" THEN None          \* f64::from_str fails
    ELSE IF ~IsFinite(file.v) THEN None             \* !val.is_finite()
    ELSE file.v

\* read_battery_string's result: the trimmed text (main.rs:29-38).
ReadBatteryString(file) ==
    IF file.f = "missing" THEN NoneStr ELSE file.text

\* The paths whose fs::read_to_string returns Err (main.rs:30, 44).
ReadErrors(files) == {p \in DOMAIN files : files[p].f = "missing"}

\* The set `failed` after the reads of `paths` found `files` (a function
\* from the paths read to their contents): main.rs:31-34, 45-48.
FailedAfter(old, files) ==
    old \cup {p \in DOMAIN files : files[p].f = "missing"}

\* Mutant: a failure is reported whether or not it was reported before.
ReportedMissing_Always(old, files) ==
    {p \in DOMAIN files : files[p].f = "missing"}

\* The paths whose failure this tick reports on stderr: those that fail and
\* are not yet in `failed`.
ReportedMissing(old, files) ==
    {p \in DOMAIN files : files[p].f = "missing"} \ old

----------------------------------------------------------------------------
(* PowerDeliveryProbe: sensors.rs:159-234                                  *)

\* The firmware version at or below which PDVL is not trusted.
PdvlBuggedFirmware == 45096

\* Sensors::path (sensors.rs:159-168): None when no chip was found.
SensorsHasPath(sn) == ~sn.chip_null

\* Sensors::firmware_version (sensors.rs:171-181).
FirmwareVersion(sn, fw_file) ==
    IF SensorsHasPath(sn) /\ fw_file.f = "text" /\ fw_file.text = "integer"
    THEN fw_file.i ELSE NoneInt

\* Sensors::pdcs (sensors.rs:184-194): the file must parse as u8.
Pdcs(sn, pdcs_file) ==
    IF SensorsHasPath(sn) /\ pdcs_file.f = "text" /\ pdcs_file.text = "integer"
       /\ pdcs_file.i \in 0..255
    THEN pdcs_file.i ELSE NoneInt

\* Sensors::pdvl (sensors.rs:197-219).
Pdvl(sn, fw_file, reading) ==
    IF FirmwareVersion(sn, fw_file) = NoneInt THEN None
    ELSE IF FirmwareVersion(sn, fw_file) <= PdvlBuggedFirmware THEN None
    ELSE IF ~sn.chip_null /\ sn.pdvl_subfeature_num /\ reading.rc = 0
         THEN reading.v ELSE None

\* Sensors::pdam (sensors.rs:222-234).
Pdam(sn, reading) ==
    IF ~sn.chip_null /\ sn.pdam_subfeature_num /\ reading.rc = 0
    THEN reading.v ELSE None

----------------------------------------------------------------------------
(* StateInferenceEngine: main.rs:257-372                                   *)

\* charge_shutdown (main.rs:258-261).
ChargeShutdown(cf, rsbp) ==
    IF IsSome(cf) THEN Mul(cf, Div(rsbp, Num(100))) ELSE None

\* The expect() of main.rs:265 panics: voltage_now is read, current_now is
\* not, and there is no power_now_from_file either.
PowerNowPanics(vn, cn, pnf) == IsSome(vn) /\ ~IsSome(cn) /\ ~IsSome(pnf)

\* power_now (main.rs:263-267), where it does not panic.
PowerNow(vn, cn, pnf) ==
    IF IsSome(vn) /\ IsSome(cn) THEN Mul(vn, cn)
    ELSE IF IsSome(vn) THEN Mul(pnf, vn)
    ELSE None

\* Bit 0 of the PD contract status: connected (main.rs:271).
PdConnected(pdcs_v) == (pdcs_v % 2) # 0
\* Bit 4 of the PD contract status, cleared: sink (main.rs:272).
PdSink(pdcs_v) == ((pdcs_v \div 16) % 2) = 0

\* Mutant: a missing PD current counts as 1 A.
PdPower_VoltageAlone(pdvl_v, pdam_v) ==
    IF IsSome(pdvl_v) /\ IsSome(pdam_v) THEN Mul(pdvl_v, pdam_v)
    ELSE IF IsSome(pdvl_v) THEN pdvl_v
    ELSE Num(0)

\* pd_power, in Watts (main.rs:275-278).
PdPower(pdvl_v, pdam_v) ==
    IF IsSome(pdvl_v) /\ IsSome(pdam_v) THEN Mul(pdvl_v, pdam_v) ELSE Num(0)

\* Mutant: low power is reported on the tick after a disconnected one, and
\* ignored otherwise (the test of was_disconnected is inverted).
AcStatusPd_SlowWhenFresh(pdcs_v, pdvl_v, pdam_v, prev_ac) ==
    LET was_disconnected == prev_ac = "Disconnected"
        pd_power == PdPower(pdvl_v, pdam_v)
    IN IF PdConnected(pdcs_v) /\ PdSink(pdcs_v)
       THEN IF was_disconnected /\ Gt(pd_power, Num(0)) /\ Lt(pd_power, Num(30))
            THEN "Connected slow"
            ELSE "Connected"
       ELSE "Disconnected"

\* The PD branch of ac_status (main.rs:271-289).
AcStatusPd(pdcs_v, pdvl_v, pdam_v, prev_ac) ==
    LET connected == PdConnected(pdcs_v)
        sink == PdSink(pdcs_v)
        was_disconnected == prev_ac = "Disconnected"
        pd_power == PdPower(pdvl_v, pdam_v)
    IN IF connected /\ sink
       THEN IF ~was_disconnected /\ Gt(pd_power, Num(0)) /\ Lt(pd_power, Num(30))
            THEN "Connected slow"
            ELSE "Connected"
       ELSE "Disconnected"

\* Mutant: the hardware status string is consulted before the online file.
AcStatusFallback_StatusFirst(ac_v, status_v) ==
    IF status_v \in {"Full", "Charging"} THEN "Connected"
    ELSE IF status_v = "Discharging" THEN "Disconnected"
    ELSE IF ac_v = "0" THEN "Disconnected"
    ELSE IF ac_v = "1" THEN "Connected"
    ELSE IF ac_v = NoneStr THEN NoneStr
    ELSE "Disconnected"

\* The fallback branch of ac_status (main.rs:291-303).
AcStatusFallback(ac_v, status_v) ==
    IF ac_v = "0" THEN "Disconnected"
    ELSE IF ac_v = "1" THEN "Connected"
    ELSE IF ac_v = NoneStr
         THEN IF status_v \in {"Full", "Charging"} THEN "Connected"
              ELSE IF status_v = "Discharging" THEN "Disconnected"
              ELSE NoneStr
         ELSE "Disconnected"

\* Mutant: the hardware status string Discharging goes before the PD status.
AcStatus_StatusOverrides(pdcs_v, pdvl_v, pdam_v, prev_ac, ac_v, status_v) ==
    IF status_v = "Discharging" THEN "Disconnected"
    ELSE IF pdcs_v # NoneInt
    THEN AcStatusPd(pdcs_v, pdvl_v, pdam_v, prev_ac)
    ELSE AcStatusFallback(ac_v, status_v)

\* ac_status (main.rs:270-304); ac_v is the online file's reading, which
\* the PD branch does not make.
AcStatus(pdcs_v, pdvl_v, pdam_v, prev_ac, ac_v, status_v) ==
    IF pdcs_v # NoneInt
    THEN AcStatusPd(pdcs_v, pdvl_v, pdam_v, prev_ac)
    ELSE AcStatusFallback(ac_v, status_v)

\* battery_percent (main.rs:307-310).
BatteryPercent(cn, cf) ==
    IF IsSome(cn) /\ IsSome(cf) THEN Mul(Div(cn, cf), Num(100)) ELSE None

\* Mutant: the two orderings are swapped.
BatteryStatusHeuristic_Swapped(percent, prev_percent) ==
    LET ordering == IF IsSome(percent) /\ IsSome(prev_percent)
                    THEN PartialCmp(percent, prev_percent) ELSE "None"
    IN IF ordering = "Less" THEN "Charging"
       ELSE IF ordering = "Greater" THEN "Discharging"
       ELSE IF Ge(IF IsSome(percent) THEN percent ELSE Num(0), Fin(1, 179, 2))
            THEN "Full"
            ELSE NoneStr

\* Mutant: the percent must be above 89.5, not at least 89.5.
BatteryStatusHeuristic_Strict(percent, prev_percent) ==
    LET ordering == IF IsSome(percent) /\ IsSome(prev_percent)
                    THEN PartialCmp(percent, prev_percent) ELSE "None"
    IN IF ordering = "Less" THEN "Discharging"
       ELSE IF ordering = "Greater" THEN "Charging"
       ELSE IF Gt(IF IsSome(percent) THEN percent ELSE Num(0), Fin(1, 179, 2))
            THEN "Full"
            ELSE NoneStr

\* The heuristic of battery_status (main.rs:319-335).
BatteryStatusHeuristic(percent, prev_percent) ==
    LET ordering == IF IsSome(percent) /\ IsSome(prev_percent)
                    THEN PartialCmp(percent, prev_percent) ELSE "None"
    IN IF ordering = "Less" THEN "Discharging"
       ELSE IF ordering = "Greater" THEN "Charging"
       ELSE IF Ge(IF IsSome(percent) THEN percent ELSE Num(0), Fin(1, 179, 2))
            THEN "Full"
            ELSE NoneStr

\* Mutant: a conclusive trend goes before the hardware string.
BatteryStatus_TrendFirst(ac_st, status_v, percent, prev_percent) ==
    IF IsSome(percent) /\ IsSome(prev_percent) /\ Lt(percent, prev_percent)
    THEN "Discharging"
    ELSE IF IsSome(percent) /\ IsSome(prev_percent) /\ Gt(percent, prev_percent)
    THEN "Charging"
    ELSE IF status_v = "Full" THEN "Full"
    ELSE IF status_v = "Discharging" THEN "Discharging"
    ELSE IF ac_st = "Connected" /\ status_v = "Charging" THEN "Charging"
    ELSE BatteryStatusHeuristic(percent, prev_percent)

\* battery_status (main.rs:313-337).
BatteryStatus(ac_st, status_v, percent, prev_percent) ==
    IF status_v = "Full" THEN "Full"
    ELSE IF status_v = "Discharging" THEN "Discharging"
    ELSE IF ac_st = "Connected" /\ status_v = "Charging" THEN "Charging"
    ELSE BatteryStatusHeuristic(percent, prev_percent)

\* secs_until_battery_full (main.rs:340-348).
SecsUntilBatteryFull(cf, cn, vmd, pn) ==
    IF IsSome(cf) /\ IsSome(cn) /\ IsSome(vmd) /\ IsSome(pn)
    THEN LET charge_delta == Sub(cf, cn)
             hours == Div(Mul(charge_delta, vmd), pn)
         IN Mul(hours, Num(3600))
    ELSE None

\* Mutant: the threshold test is >= where the code has >.
SecsUntilShutdownRequest_Ge(cn, cs, vmd, pn, ac_st) ==
    IF IsSome(cn) /\ IsSome(cs) /\ IsSome(vmd) /\ IsSome(pn)
    THEN IF Ge(cn, cs)
         THEN LET charge_delta == Sub(cn, cs)
                  hours == Div(Mul(charge_delta, vmd), pn)
              IN Mul(hours, Num(3600))
         ELSE IF ac_st = "Connected" THEN Num(1) ELSE Num(0)
    ELSE None

\* Mutant: at or below the threshold the sentinel needs no voltage and no
\* power.
SecsUntilShutdownRequest_ThresholdFirst(cn, cs, vmd, pn, ac_st) ==
    IF IsSome(cn) /\ IsSome(cs) /\ ~Gt(cn, cs)
    THEN IF ac_st = "Connected" THEN Num(1) ELSE Num(0)
    ELSE IF IsSome(cn) /\ IsSome(cs) /\ IsSome(vmd) /\ IsSome(pn)
    THEN LET charge_delta == Sub(cn, cs)
             hours == Div(Mul(charge_delta, vmd), pn)
         IN Mul(hours, Num(3600))
    ELSE None

\* Mutant: "Connected slow" suppresses the shutdown as "Connected" does.
SecsUntilShutdownRequest_SlowSuppresses(cn, cs, vmd, pn, ac_st) ==
    IF IsSome(cn) /\ IsSome(cs) /\ IsSome(vmd) /\ IsSome(pn)
    THEN IF Gt(cn, cs)
         THEN LET charge_delta == Sub(cn, cs)
                  hours == Div(Mul(charge_delta, vmd), pn)
              IN Mul(hours, Num(3600))
         ELSE IF ac_st \in {"Connected", "Connected slow"}
              THEN Num(1) ELSE Num(0)
    ELSE None

\* Mutant: the shutdown is not suppressed while connected.
SecsUntilShutdownRequest_NoSuppress(cn, cs, vmd, pn, ac_st) ==
    IF IsSome(cn) /\ IsSome(cs) /\ IsSome(vmd) /\ IsSome(pn)
    THEN IF Gt(cn, cs)
         THEN LET charge_delta == Sub(cn, cs)
                  hours == Div(Mul(charge_delta, vmd), pn)
              IN Mul(hours, Num(3600))
         ELSE Num(0)
    ELSE None

\* secs_until_shutdown_request (main.rs:351-372).
SecsUntilShutdownRequest(cn, cs, vmd, pn, ac_st) ==
    IF IsSome(cn) /\ IsSome(cs) /\ IsSome(vmd) /\ IsSome(pn)
    THEN IF Gt(cn, cs)
         THEN LET charge_delta == Sub(cn, cs)
                  hours == Div(Mul(charge_delta, vmd), pn)
              IN Mul(hours, Num(3600))
         ELSE IF ac_st = "Connected" THEN Num(1) ELSE Num(0)
    ELSE None

----------------------------------------------------------------------------
(* Publisher: main.rs:68-99                                                *)

Keys == {"ac_status", "battery_percent", "battery_status",
         "secs_until_battery_full", "secs_until_shutdown_request"}
\* The temporary path of a key (main.rs:82).
Dot(key) == "." \o key
\* A path of /run/vpower that holds no file.
NoFile == "<no file>"
\* What a failed fs::write may leave in the file it created.
Partial == "<partial>"

\* The outcomes of the file system calls of one write_str: all succeed, or
\* the first to fail is create_dir, the creation of the temporary file, the
\* writing of its content, or the rename.
IoOutcomes == {"ok", "mkdir_err", "create_err", "write_err", "rename_err"}

\* Mutant: a None removes the key's file.
WriteStr_NoneRemoves(fs, var_name, val, io) ==
    IF val = NoneStr THEN [fs EXCEPT !.files[var_name] = NoFile]
    ELSE IF io = "mkdir_err" THEN fs
    ELSE LET made == [fs EXCEPT !.dir = TRUE]
             text == val \o "\n"
         IN IF io = "create_err" THEN made
            ELSE IF io = "write_err"
                 THEN [made EXCEPT !.files[Dot(var_name)] = Partial]
            ELSE IF io = "rename_err"
                 THEN [made EXCEPT !.files[Dot(var_name)] = text]
            ELSE [made EXCEPT !.files[Dot(var_name)] = NoFile,
                              !.files[var_name] = text]

\* write_str (main.rs:68-93) of Some(val) or NoneStr, under the outcome io.
WriteStr(fs, var_name, val, io) ==
    IF val = NoneStr THEN fs
    ELSE IF io = "mkdir_err" THEN fs
    ELSE LET made == [fs EXCEPT !.dir = TRUE]
             text == val \o "\n"
         IN IF io = "create_err" THEN made
            ELSE IF io = "write_err"
                 THEN [made EXCEPT !.files[Dot(var_name)] = Partial]
            ELSE IF io = "rename_err"
                 THEN [made EXCEPT !.files[Dot(var_name)] = text]
            ELSE [made EXCEPT !.files[Dot(var_name)] = NoFile,
                              !.files[var_name] = text]

\* What a reader holds before its first read.
NothingSeen == [key |-> "<none>", text |-> NoFile]

\* write_f64 (main.rs:95-99).
WriteF64(fs, var_name, val, io) ==
    IF IsSome(val) THEN WriteStr(fs, var_name, F64ToString(val), io) ELSE fs

----------------------------------------------------------------------------
(* ShutdownController: main.rs:386-400                                     *)

\* The test of main.rs:387.
ForceShutdown(secs) == IsSome(secs) /\ Eq(secs, Num(0))

\* Duration::from_secs_f64 panics on a negative or non-finite argument.
DurationPanics(secs) == ~IsFinite(secs) \/ (secs.s = -1 /\ secs.n # 0)

----------------------------------------------------------------------------
(* The loop of main(): main.rs:231-408                                     *)

NoReadings ==
    /\ charge_full' = None /\ charge_now' = None /\ current_now' = None
    /\ power_now_from_file' = None /\ pdam' = None /\ pdcs' = NoneInt
    /\ pdvl' = None /\ status' = NoneStr /\ voltage_min_design' = None
    /\ voltage_now' = None /\ ac' = Unread

NoDerived ==
    /\ charge_shutdown' = None /\ power_now' = None /\ ac_status' = NoneStr
    /\ battery_percent' = None /\ battery_status' = NoneStr
    /\ secs_until_battery_full' = None /\ secs_until_shutdown_request' = None

\* The state when the loop is entered (main.rs:101-229).  E gives the
\* environment the model is run in: the configurations and the file
\* contents and sensor readings a tick may find.
InitIn(E) ==
    /\ pc = "tick"
    /\ files_named_charge \in E.files_named_charge
    /\ files_named_current \in E.files_named_current
    /\ request_shutdown_battery_percent \in E.request_shutdown_battery_percent
    /\ force_shutdown_timeout_secs \in E.force_shutdown_timeout_secs
    /\ sensors \in E.sensors
    /\ failed = {}
    /\ stderr_missing = {}
    /\ read_errs = {}
    /\ prev_ac_status = NoneStr
    /\ prev_battery_percent = None
    /\ charge_full = None /\ charge_now = None /\ current_now = None
    /\ power_now_from_file = None /\ pdam = None /\ pdcs = NoneInt
    /\ pdvl = None /\ status = NoneStr /\ voltage_min_design = None
    /\ voltage_now = None /\ ac = Unread
    /\ charge_shutdown = None /\ power_now = None /\ ac_status = NoneStr
    /\ battery_percent = None /\ battery_status = NoneStr
    /\ secs_until_battery_full = None /\ secs_until_shutdown_request = None
    /\ run_vpower = [dir |-> FALSE,
                     files |-> [f \in Keys \cup {Dot(k) : k \in Keys} |-> NoFile]]
    /\ poweroff = <<>>
    /\ wkey = 0 /\ wstep = "idle" /\ wold = NoFile
    /\ seen = NothingSeen

\* main.rs:232-372: the reads of one tick and the derivation of its values.
\* f gives the contents of the files and the sensor readings the tick finds.
TickWith(f) ==
    LET p_full == BatPath(IF files_named_charge THEN "charge_full" ELSE "energy_full")
        p_now == BatPath(IF files_named_charge THEN "charge_now" ELSE "energy_now")
        p_cur == BatPath(IF files_named_current THEN "current_now" ELSE "power_now")
        cf == ReadBatteryF64(f.charge_full)
        cn == ReadBatteryF64(f.charge_now)
        cur == IF files_named_current THEN ReadBatteryF64(f.current) ELSE None
        pnf == IF files_named_current THEN None ELSE ReadBatteryF64(f.current)
        pdam_v == Pdam(sensors, f.pdam)
        pdcs_v == Pdcs(sensors, f.pdcs)
        pdvl_v == Pdvl(sensors, f.firmware_version, f.pdvl)
        status_v == ReadBatteryString(f.status)
        vmd == ReadBatteryF64(f.voltage_min_design)
        vn == ReadBatteryF64(f.voltage_now)
        panics == PowerNowPanics(vn, cur, pnf)
        reads_online == ~panics /\ pdcs_v = NoneInt
        ac_v == IF reads_online THEN ReadBatteryString(f.online) ELSE Unread
        files == (p_full :> f.charge_full) @@ (p_now :> f.charge_now) @@ (p_cur :> f.current)
                 @@ (BatPath("status") :> f.status)
                 @@ (BatPath("voltage_min_design") :> f.voltage_min_design)
                 @@ (BatPath("voltage_now") :> f.voltage_now)
                 @@ (IF reads_online THEN (AcPath("online") :> f.online)
                     ELSE (p_full :> f.charge_full))
        cs == ChargeShutdown(cf, request_shutdown_battery_percent)
        pn == PowerNow(vn, cur, pnf)
        ac_st == AcStatus(pdcs_v, pdvl_v, pdam_v, prev_ac_status, ac_v, status_v)
        percent == BatteryPercent(cn, cf)
    IN /\ pc = "tick"
       /\ charge_full' = cf /\ charge_now' = cn
       /\ current_now' = cur /\ power_now_from_file' = pnf
       /\ pdam' = pdam_v /\ pdcs' = pdcs_v /\ pdvl' = pdvl_v
       /\ status' = status_v /\ voltage_min_design' = vmd /\ voltage_now' = vn
       /\ ac' = ac_v
       /\ failed' = FailedAfter(failed, files)
       /\ stderr_missing' = ReportedMissing(failed, files)
       /\ read_errs' = ReadErrors(files)
       /\ IF panics
          THEN /\ pc' = "panicked"
               /\ charge_shutdown' = cs
               /\ power_now' = None /\ ac_status' = NoneStr
               /\ battery_percent' = None /\ battery_status' = NoneStr
               /\ secs_until_battery_full' = None
               /\ secs_until_shutdown_request' = None
          ELSE /\ pc' = "publish"
               /\ charge_shutdown' = cs
               /\ power_now' = pn
               /\ ac_status' = ac_st
               /\ battery_percent' = percent
               /\ battery_status' =
                      BatteryStatus(ac_st, status_v, percent, prev_battery_percent)
               /\ secs_until_battery_full' = SecsUntilBatteryFull(cf, cn, vmd, pn)
               /\ secs_until_shutdown_request' =
                      SecsUntilShutdownRequest(cn, cs, vmd, pn, ac_st)
       /\ UNCHANGED <<writer, seen, config, prev, run_vpower, poweroff>>

Tick(E) ==
    \E f \in [charge_full : E.charge_full, charge_now : E.charge_now,
              current : E.current, status : E.status,
              voltage_min_design : E.voltage_min_design,
              voltage_now : E.voltage_now, online : E.online,
              firmware_version : E.firmware_version, pdcs : E.pdcs,
              pdvl : E.pdvl, pdam : E.pdam] :
        TickWith(f)

\* Mutant: the force-shutdown test goes before the writes, so that the
\* triggering tick publishes nothing.
PublishWith_AfterDecision(io) ==
    LET fs1 == WriteStr(run_vpower, "ac_status", ac_status, io["ac_status"])
        fs2 == WriteF64(fs1, "battery_percent", battery_percent,
                        io["battery_percent"])
        fs3 == WriteStr(fs2, "battery_status", battery_status,
                        io["battery_status"])
        fs4 == WriteF64(fs3, "secs_until_battery_full", secs_until_battery_full,
                        io["secs_until_battery_full"])
        fs5 == WriteF64(fs4, "secs_until_shutdown_request",
                        secs_until_shutdown_request,
                        io["secs_until_shutdown_request"])
    IN /\ pc = "publish"
       /\ run_vpower' = IF ForceShutdown(secs_until_shutdown_request)
                        THEN run_vpower ELSE fs5
       /\ pc' = "decide"
       /\ UNCHANGED <<writer, seen, config, failed, stderr_missing,
                      read_errs, prev, readings, derived, poweroff>>

\* main.rs:374-384: the five writes, each under its own outcome.
PublishWith(io) ==
    LET fs1 == WriteStr(run_vpower, "ac_status", ac_status, io["ac_status"])
        fs2 == WriteF64(fs1, "battery_percent", battery_percent,
                        io["battery_percent"])
        fs3 == WriteStr(fs2, "battery_status", battery_status,
                        io["battery_status"])
        fs4 == WriteF64(fs3, "secs_until_battery_full", secs_until_battery_full,
                        io["secs_until_battery_full"])
        fs5 == WriteF64(fs4, "secs_until_shutdown_request",
                        secs_until_shutdown_request,
                        io["secs_until_shutdown_request"])
    IN /\ pc = "publish"
       /\ run_vpower' = fs5
       /\ pc' = "decide"
       /\ UNCHANGED <<writer, seen, config, failed, stderr_missing,
                      read_errs, prev, readings, derived, poweroff>>

Publish(E) == \E io \in [Keys -> E.io] : PublishWith(io)

\* The writes of lines 376-384 in their order.
KeyOrder == <<"ac_status", "battery_percent", "battery_status",
              "secs_until_battery_full", "secs_until_shutdown_request">>

\* The argument `val` of the write_str made for a key: the derived string,
\* or the f64 as write_f64 formats it (main.rs:97); NoneStr when the write
\* returns at once (main.rs:69-72, 96).
ValueOf(key) ==
    LET opt(x) == IF IsSome(x) THEN F64ToString(x) ELSE NoneStr
    IN CASE key = "ac_status" -> ac_status
         [] key = "battery_percent" -> opt(battery_percent)
         [] key = "battery_status" -> battery_status
         [] key = "secs_until_battery_full" -> opt(secs_until_battery_full)
         [] key = "secs_until_shutdown_request"
                -> opt(secs_until_shutdown_request)

\* The content write_str gives the file (main.rs:83).
TextOf(key) == ValueOf(key) \o "\n"

\* Mutant: the content is written to the key's file itself.
WriteTarget_InPlace(var_name) == var_name

\* The path fs::write is given (main.rs:82-83).
WriteTarget(var_name) == Dot(var_name)

\* main.rs:376-384, 69-72: the next write_str is called; it returns at once
\* on None.
PublishCall ==
    /\ pc = "publish" /\ wstep = "idle" /\ wkey < Len(KeyOrder)
    /\ wkey' = wkey + 1
    /\ IF ValueOf(KeyOrder[wkey + 1]) = NoneStr
       THEN wstep' = "idle" /\ wold' = NoFile
       ELSE wstep' = "mkdir" /\ wold' = run_vpower.files[KeyOrder[wkey + 1]]
    /\ UNCHANGED <<pc, seen, config, failed, stderr_missing, read_errs, prev,
                   readings, derived, run_vpower, poweroff>>

\* main.rs:74-79: create_dir; an error other than AlreadyExists returns.
CreateDir ==
    /\ pc = "publish" /\ wstep = "mkdir"
    /\ \E ok \in BOOLEAN :
        IF ok THEN /\ run_vpower' = [run_vpower EXCEPT !.dir = TRUE]
                   /\ wstep' = "create"
              ELSE /\ run_vpower.dir = FALSE
                   /\ wstep' = "idle"
                   /\ UNCHANGED run_vpower
    /\ UNCHANGED <<pc, wkey, wold, seen, config, failed, stderr_missing,
                   read_errs, prev, readings, derived, poweroff>>

\* main.rs:83: fs::write opens the temporary file, creating or truncating
\* it; a failure returns.
CreateDot ==
    /\ pc = "publish" /\ wstep = "create"
    /\ \E ok \in BOOLEAN :
        IF ok THEN /\ run_vpower' = [run_vpower EXCEPT
                        !.files[WriteTarget(KeyOrder[wkey])] = Partial]
                   /\ wstep' = "write"
              ELSE /\ wstep' = "idle"
                   /\ UNCHANGED run_vpower
    /\ UNCHANGED <<pc, wkey, wold, seen, config, failed, stderr_missing,
                   read_errs, prev, readings, derived, poweroff>>

\* main.rs:83: fs::write writes the content; a failure returns and leaves
\* what was written so far.
WriteDot ==
    /\ pc = "publish" /\ wstep = "write"
    /\ \E ok \in BOOLEAN :
        IF ok THEN /\ run_vpower' = [run_vpower EXCEPT
                        !.files[WriteTarget(KeyOrder[wkey])] =
                            TextOf(KeyOrder[wkey])]
                   /\ wstep' = "rename"
              ELSE /\ wstep' = "idle"
                   /\ UNCHANGED run_vpower
    /\ UNCHANGED <<pc, wkey, wold, seen, config, failed, stderr_missing,
                   read_errs, prev, readings, derived, poweroff>>

\* main.rs:89-92: rename the temporary file onto the key's file.
Rename ==
    /\ pc = "publish" /\ wstep = "rename"
    /\ \E ok \in BOOLEAN :
        IF ok THEN run_vpower' = [run_vpower EXCEPT
                        !.files[WriteTarget(KeyOrder[wkey])] = NoFile,
                        !.files[KeyOrder[wkey]] =
                            run_vpower.files[WriteTarget(KeyOrder[wkey])]]
              ELSE UNCHANGED run_vpower
    /\ wstep' = "idle"
    /\ UNCHANGED <<pc, wkey, wold, seen, config, failed, stderr_missing,
                   read_errs, prev, readings, derived, poweroff>>

\* main.rs:384-386: the last write_str has returned.
PublishReturn ==
    /\ pc = "publish" /\ wstep = "idle" /\ wkey = Len(KeyOrder)
    /\ pc' = "decide"
    /\ wkey' = 0 /\ wold' = NoFile
    /\ UNCHANGED <<wstep, seen, config, failed, stderr_missing, read_errs,
                   prev, readings, derived, run_vpower, poweroff>>

\* The process is killed between two calls of the writes.
Interrupt ==
    /\ pc = "publish"
    /\ pc' = "interrupted"
    /\ UNCHANGED <<writer, seen, config, failed, stderr_missing, read_errs,
                   prev, readings, derived, run_vpower, poweroff>>

\* Another process reads a key's file of /run/vpower.
ReaderRead ==
    /\ \E key \in Keys :
        seen' = [key |-> key, text |-> run_vpower.files[key]]
    /\ UNCHANGED <<pc, writer, config, failed, stderr_missing, read_errs,
                   prev, readings, derived, run_vpower, poweroff>>

\* main.rs:387: force the shutdown, or go on with the tick.
Decide ==
    /\ pc = "decide"
    /\ pc' = IF ForceShutdown(secs_until_shutdown_request) THEN "grace" ELSE "update"
    /\ UNCHANGED <<writer, seen, config, failed, stderr_missing, read_errs,
                   prev, readings, derived, run_vpower, poweroff>>

\* main.rs:388-390: the sleep of force_shutdown_timeout_secs.
Grace ==
    /\ pc = "grace"
    /\ pc' = IF DurationPanics(force_shutdown_timeout_secs)
             THEN "panicked" ELSE "poweroff"
    /\ UNCHANGED <<writer, seen, config, failed, stderr_missing, read_errs,
                   prev, readings, derived, run_vpower, poweroff>>

\* Mutant: a failed poweroff is tried again instead of panicking.
Poweroff_Retry ==
    /\ pc = "poweroff"
    /\ \E outcome \in {"spawn_err", "nonzero", "success"} :
        /\ poweroff' = Append(poweroff, outcome)
        /\ pc' = IF outcome = "success" THEN "exited" ELSE "poweroff"
    /\ UNCHANGED <<writer, seen, config, failed, stderr_missing, read_errs,
                   prev, readings, derived, run_vpower>>

\* main.rs:392-399: run poweroff; return on success, panic otherwise.
Poweroff ==
    /\ pc = "poweroff"
    /\ \E outcome \in {"spawn_err", "nonzero", "success"} :
        /\ poweroff' = Append(poweroff, outcome)
        /\ pc' = IF outcome = "success" THEN "exited" ELSE "panicked"
    /\ UNCHANGED <<writer, seen, config, failed, stderr_missing, read_errs,
                   prev, readings, derived, run_vpower>>

\* Mutant: line 404 is left out, prev_battery_percent is never updated.
UpdatePrev_AcOnly ==
    /\ pc = "update"
    /\ prev_ac_status' = ac_status
    /\ pc' = "sleep"
    /\ UNCHANGED <<writer, seen, config, failed, stderr_missing, read_errs,
                   readings, derived, run_vpower, poweroff,
                   prev_battery_percent>>

\* main.rs:402-404.
UpdatePrev ==
    /\ pc = "update"
    /\ prev_ac_status' = ac_status
    /\ prev_battery_percent' = battery_percent
    /\ pc' = "sleep"
    /\ UNCHANGED <<writer, seen, config, failed, stderr_missing, read_errs,
                   readings, derived, run_vpower, poweroff>>

\* main.rs:407-408: sleep a second; the tick's locals go out of scope.
Sleep ==
    /\ pc = "sleep"
    /\ pc' = "tick"
    /\ NoReadings
    /\ NoDerived
    /\ stderr_missing' = {}
    /\ read_errs' = {}
    /\ UNCHANGED <<writer, seen, config, failed, prev, run_vpower, poweroff>>

----------------------------------------------------------------------------
(* Environments and specifications                                         *)

NumFiles(S) == {NumFile(Num(i)) : i \in S}

\* Sensors::new (sensors.rs:129-157): libsensors initialises or not, the
\* "jupiter" chip is found or not, and its voltage and current subfeatures
\* are found or not (TRUE stands for Some(number)).
SensorsNew(init_ok, chip_found, pdvl_found, pdam_found) ==
    [initialized |-> init_ok,
     chip_null |-> ~(init_ok /\ chip_found),
     pdvl_subfeature_num |-> init_ok /\ chip_found /\ pdvl_found,
     pdam_subfeature_num |-> init_ok /\ chip_found /\ pdam_found]

GoodSensors == SensorsNew(TRUE, TRUE, TRUE, TRUE)

\* The barest environment: a battery of charge 100 of 200 that draws 2 A at
\* 1 V, the hardware status "Unknown", a PD status that reports a connected
\* sink at 5 V and 3 A, no online file, and a /run that cannot be written.
\* The environments below widen it where the properties checked in them
\* need it; the shutdown threshold is the charge 1 (0.5 % of 200).
EnvBase ==
    [files_named_charge |-> {TRUE},
     files_named_current |-> {TRUE},
     request_shutdown_battery_percent |-> {Fin(1, 1, 2)},
     force_shutdown_timeout_secs |-> {Num(10)},
     sensors |-> {GoodSensors},
     charge_full |-> NumFiles({200}),
     charge_now |-> NumFiles({100}),
     current |-> NumFiles({2}),
     status |-> {StrFile("Unknown")},
     voltage_min_design |-> NumFiles({1}),
     voltage_now |-> NumFiles({1}),
     online |-> {Missing},
     firmware_version |-> {IntFile(PdvlBuggedFirmware + 1)},
     pdcs |-> {IntFile(1)},
     pdvl |-> {SensorVal(Num(5))},
     pdam |-> {SensorVal(Num(3))},
     io |-> {"mkdir_err"}]

\* The control flow of the loop: a charge at, below and above the shutdown
\* threshold with and without AC, a grace period that is and is not a
\* valid duration.
EnvControl ==
    [EnvBase EXCEPT
        !.files_named_current = BOOLEAN,
        !.force_shutdown_timeout_secs = {Num(10), Num(-1)},
        !.charge_full = {Garbage} \cup NumFiles({200}),
        !.charge_now = {Garbage} \cup NumFiles({0, 1, 2}),
        !.current = {Garbage} \cup NumFiles({2}),
        !.voltage_min_design = {Garbage} \cup NumFiles({1}),
        !.voltage_now = {Garbage} \cup NumFiles({1}),
        !.pdcs = {Missing, IntFile(0), IntFile(1)}]

\* The readings of charge_now around the shutdown threshold are the charges
\* 0..MaxLowCharge (the threshold is 1 when charge_full is 200).
MaxLowCharge == 2

\* The shutdown projection: charges below, at and above the threshold and
\* above charge_full, a zero charge_full, zero and negative power, a zero
\* design voltage, every AC status.
EnvShutdown ==
    [EnvBase EXCEPT
        !.charge_full = {Garbage} \cup NumFiles({0, 200}),
        !.charge_now = {Garbage} \cup NumFiles((0..MaxLowCharge) \cup {300}),
        !.current = {Garbage} \cup NumFiles({-2, 0, 2}),
        !.voltage_min_design = {Garbage} \cup NumFiles({0, 1}),
        !.voltage_now = {Garbage} \cup NumFiles({1}),
        !.pdcs = {Missing, IntFile(0), IntFile(1)}]

\* Partial telemetry: every reading is there or not, the files missing,
\* malformed or not finite.
EnvTelemetry ==
    [EnvBase EXCEPT
        !.files_named_current = BOOLEAN,
        !.charge_full = {Garbage, NumFile(Inf(1)), NumFile(NaN)}
                        \cup NumFiles({200}),
        !.charge_now = {Garbage} \cup NumFiles({1}),
        !.current = {Missing} \cup NumFiles({2}),
        !.status = {Missing, StrFile("Unknown")},
        !.voltage_min_design = {Garbage} \cup NumFiles({1}),
        !.voltage_now = {Garbage} \cup NumFiles({1}),
        !.pdcs = {Missing, Garbage, IntFile(1)},
        !.pdvl = {SensorErr, SensorVal(Num(20))},
        !.pdam = {SensorErr, SensorVal(Num(3))}]

\* The AC status: every PD status, PD powers of 0, 15, 30 and 60 W, every
\* firmware, every online indicator and hardware status.
EnvAc ==
    [EnvBase EXCEPT
        !.status = {Missing} \cup {StrFile(t) : t \in
                        {"Full", "Charging", "Discharging", "Unknown"}},
        !.online = {Missing} \cup {StrFile(t) : t \in {"0", "1", "2"}},
        !.firmware_version = {Missing, IntFile(PdvlBuggedFirmware),
                              IntFile(PdvlBuggedFirmware + 1)},
        !.charge_now = NumFiles({1, 100}),
        !.pdcs = {Missing, IntFile(256)}
                 \cup {IntFile(i) : i \in {0, 1, 16, 17}},
        !.pdvl = {SensorErr} \cup {SensorVal(Num(i)) : i \in {0, 5, 10, 20}},
        !.pdam = {SensorErr, SensorVal(Num(3))}]

\* The battery percent and status: a zero charge_full, percents around
\* 89.5, every hardware status, every AC status.
EnvBattery ==
    [EnvBase EXCEPT
        !.charge_full = {Garbage} \cup NumFiles({0, 200}),
        !.charge_now = {Garbage} \cup NumFiles({0, 178, 179, 180}),
        !.status = {Missing} \cup {StrFile(t) : t \in
                        {"Full", "Charging", "Discharging", "Unknown",
                         "Not charging"}},
        !.online = {Missing} \cup {StrFile(t) : t \in {"0", "1"}},
        !.pdcs = {Missing, IntFile(1)}]

\* The publisher: the values of every key present and absent, every
\* outcome of the file system calls.
EnvPublish ==
    [EnvBase EXCEPT
        !.charge_full = {Garbage} \cup NumFiles({0, 200}),
        !.charge_now = {Garbage} \cup NumFiles({0, 1}),
        !.pdcs = {Missing, IntFile(1)},
        !.io = {"ok", "mkdir_err"}]

\* The writes step by step: a charge at the threshold, AC connected at 15
\* and at 60 W.
EnvAtomic ==
    [EnvBase EXCEPT
        !.charge_now = NumFiles({1}),
        !.pdvl = {SensorVal(Num(5)), SensorVal(Num(20))}]

\* The publisher where every file system call of the writes succeeds.
EnvWrites == [EnvPublish EXCEPT !.io = {"ok"}]

NextIn(E) ==
    \/ Tick(E)
    \/ Publish(E)
    \/ Decide
    \/ Grace
    \/ Poweroff
    \/ UpdatePrev
    \/ Sleep

Next == NextIn(EnvControl)
Spec == InitIn(EnvControl) /\ [][Next]_vars

NextShutdown == NextIn(EnvShutdown)
SpecShutdown == InitIn(EnvShutdown) /\ [][NextShutdown]_vars

NextTelemetry == NextIn(EnvTelemetry)
SpecTelemetry == InitIn(EnvTelemetry) /\ [][NextTelemetry]_vars

NextAc == NextIn(EnvAc)
SpecAc == InitIn(EnvAc) /\ [][NextAc]_vars

NextBattery == NextIn(EnvBattery)
SpecBattery == InitIn(EnvBattery) /\ [][NextBattery]_vars

NextPublish == NextIn(EnvPublish)
SpecPublish == InitIn(EnvPublish) /\ [][NextPublish]_vars

NextWrites == NextIn(EnvWrites)
SpecWrites == InitIn(EnvWrites) /\ [][NextWrites]_vars

\* The loop with the writes of lines 376-384 taken one file system call at
\* a time, a reader of /run/vpower, and the process killed in mid-write.
NextAtomic ==
    \/ Tick(EnvAtomic)
    \/ PublishCall
    \/ CreateDir
    \/ CreateDot
    \/ WriteDot
    \/ Rename
    \/ PublishReturn
    \/ Interrupt
    \/ ReaderRead
    \/ Decide
    \/ Grace
    \/ Poweroff
    \/ UpdatePrev
    \/ Sleep
SpecAtomic == InitIn(EnvAtomic) /\ [][NextAtomic]_vars

----------------------------------------------------------------------------
(* Properties                                                              *)

\* The derived values are those of a tick that got through its derivation:
\* the loop is past line 372 and has not yet left the tick's scope.
TickDerived ==
    /\ pc # "tick"
    /\ ~(pc = "panicked"
         /\ PowerNowPanics(voltage_now, current_now, power_now_from_file))

\* prev_* still hold what the preceding tick left: the tick is derived and
\* line 403 is not reached.
BeforeUpdate == pc \in {"publish", "decide", "update"}

\* The shutdown controller has left Armed: the test of line 387 succeeded.
LeftArmed ==
    \/ pc \in {"grace", "poweroff", "exited"}
    \/ pc = "panicked" /\ ForceShutdown(secs_until_shutdown_request)

\* The tick went past the test of line 387 with the controller still Armed.
StayedArmed == pc \in {"update", "sleep"}

\* charge_now = charge_shutdown, both known.
AtThreshold ==
    IsSome(charge_now) /\ IsSome(charge_shutdown) /\ Eq(charge_now, charge_shutdown)

\* charge_now <= charge_shutdown, both known.
AtOrBelowThreshold ==
    IsSome(charge_now) /\ IsSome(charge_shutdown) /\ Le(charge_now, charge_shutdown)

\* The operands of the shutdown projection besides the two charges.
ProjectionOperands == IsSome(voltage_min_design) /\ IsSome(power_now)

\* C1 as stated: in any tick with charge_now = charge_shutdown and the AC
\* status Disconnected, secs_until_shutdown_request is 0.0 and the
\* controller leaves Armed in that tick.  (Fails: without
\* voltage_min_design or power_now the value is absent.)
C1_AtThresholdAlwaysTriggers ==
    (TickDerived /\ AtThreshold /\ ac_status = "Disconnected")
        => /\ ForceShutdown(secs_until_shutdown_request)
           /\ ~StayedArmed

\* C1 amended: in any tick with charge_now = charge_shutdown, the AC status
\* Disconnected, and voltage_min_design and power_now present,
\* secs_until_shutdown_request is 0.0 and the controller leaves Armed in
\* that tick.
C1_AtThresholdTriggers ==
    (TickDerived /\ AtThreshold /\ ac_status = "Disconnected"
     /\ ProjectionOperands)
        => /\ IsSome(secs_until_shutdown_request)
           /\ Eq(secs_until_shutdown_request, Num(0))
           /\ ~StayedArmed

C1_Witness ==
    /\ pc = "grace"
    /\ AtThreshold /\ ac_status = "Disconnected" /\ ProjectionOperands
    /\ Eq(secs_until_shutdown_request, Num(0))

\* C2 as stated: in any tick with the AC status Connected and
\* charge_now <= charge_shutdown, secs_until_shutdown_request is a strictly
\* positive value and the controller stays Armed.  (Fails: without
\* voltage_min_design or power_now the value is absent.)
C2_ConnectedAlwaysSentinel ==
    (TickDerived /\ AtOrBelowThreshold /\ ac_status = "Connected")
        => /\ IsSome(secs_until_shutdown_request)
           /\ Gt(secs_until_shutdown_request, Num(0))
           /\ ~LeftArmed

\* C2 amended: in any tick with the AC status Connected and
\* charge_now <= charge_shutdown the controller stays Armed, and if
\* voltage_min_design and power_now are present
\* secs_until_shutdown_request is the positive sentinel 1.0, however far
\* below the threshold charge_now is; without them it is absent.
C2_ConnectedSentinel ==
    (TickDerived /\ AtOrBelowThreshold /\ ac_status = "Connected")
        => /\ ~LeftArmed
           /\ ProjectionOperands
                => /\ IsSome(secs_until_shutdown_request)
                   /\ Eq(secs_until_shutdown_request, Num(1))
           /\ ~ProjectionOperands => ~IsSome(secs_until_shutdown_request)

C2_Witness ==
    /\ pc = "update"
    /\ ac_status = "Connected"
    /\ IsSome(charge_now) /\ IsSome(charge_shutdown)
    /\ Lt(charge_now, charge_shutdown)
    /\ Eq(secs_until_shutdown_request, Num(1))

\* C3 as stated: once a tick has produced secs_until_shutdown_request = 0.0
\* (the controller has left Armed), no step reads telemetry, derives or
\* publishes a value or updates prev_*, and the process does not end
\* without the shutdown command having been invoked.  (Fails: the sleep of
\* the grace period panics on a force_shutdown_timeout_secs that is no
\* valid duration, and poweroff is never run.)
C3_TriggeredShutdownIsInvoked ==
    [][LeftArmed =>
        /\ UNCHANGED <<readings, derived, prev, failed, stderr_missing,
                       run_vpower>>
        /\ pc' \in {"poweroff", "exited", "panicked"}
        /\ pc' \in {"exited", "panicked"} => Len(poweroff') = 1]_vars

\* C4: poweroff is invoked at most once; after a failed invocation the
\* process has panicked, after a successful one it has returned, and in
\* neither case is the loop in another tick.
C4_PoweroffOnceThenEnd ==
    /\ Len(poweroff) <= 1
    /\ Len(poweroff) = 1 =>
        \/ poweroff[1] = "success" /\ pc = "exited"
        \/ poweroff[1] \in {"spawn_err", "nonzero"} /\ pc = "panicked"
    /\ pc = "exited" => poweroff = <<"success">>

C4_Witness ==
    /\ pc = "panicked"
    /\ poweroff = <<"nonzero">>

\* C5 as stated: whatever readings are absent, the tick completes, and the
\* process panics only after a failed shutdown command.  (Fails: the
\* expect() of main.rs:265 panics when voltage_now is read and neither
\* current_now nor power_now is.)
C5_PanicOnlyFromPoweroff ==
    pc = "panicked" =>
        /\ Len(poweroff) = 1
        /\ poweroff[1] \in {"spawn_err", "nonzero"}

\* The step is the derivation of a tick that does not panic.
TickStep == pc = "tick" /\ pc' = "publish"

\* The PD status reports connected and sink, and the PD power is strictly
\* between 0 and 30 W.
PdLowPower ==
    /\ pdcs # NoneInt /\ PdConnected(pdcs) /\ PdSink(pdcs)
    /\ Gt(PdPower(pdvl, pdam), Num(0)) /\ Lt(PdPower(pdvl, pdam), Num(30))

\* C6 as stated: with a connected sink at low PD power, a tick after a tick
\* with AC status Disconnected yields "Connected slow", and a tick after
\* any other yields "Connected".  (Fails: the code has it the other way
\* round.)
C6_FreshPlugIsSlow ==
    (BeforeUpdate /\ PdLowPower)
        => ac_status = IF prev_ac_status = "Disconnected"
                       THEN "Connected slow" ELSE "Connected"

\* C6 amended: with a connected sink at low PD power, a tick whose
\* previous tick's AC status was Disconnected yields "Connected", and a
\* tick whose previous tick's AC status was anything else (or that is the
\* first) yields "Connected slow"; the previous status is exactly what the
\* preceding tick derived, so identical readings after a Disconnected tick
\* give Disconnected, Connected, Connected slow.
C6_FreshPlugIsConnected ==
    [][/\ (TickStep /\ PdLowPower')
            => ac_status' = IF prev_ac_status = "Disconnected"
                            THEN "Connected" ELSE "Connected slow"
       /\ pc = "update" => prev_ac_status' = ac_status
       /\ pc # "update" => prev_ac_status' = prev_ac_status]_vars

C6_Witness ==
    /\ pc = "publish" /\ PdLowPower
    /\ prev_ac_status = "Connected" /\ ac_status = "Connected slow"
    /\ Eq(PdPower(pdvl, pdam), Num(15))

\* C7 as stated: battery_percent is present exactly when charge_now and
\* charge_full are present and charge_full is not zero, and the file
\* battery_percent never holds a NaN or an infinity.  (Fails: the code
\* divides by a zero charge_full and publishes the result.)
C7_PercentAbsentWhenUndefined ==
    /\ TickDerived =>
        (IsSome(battery_percent)
            <=> (IsSome(charge_now) /\ IsSome(charge_full) /\ ~IsZero(charge_full)))
    /\ TickDerived => (IsSome(battery_percent) => IsFinite(battery_percent))
    /\ run_vpower.files["battery_percent"] \notin {"NaN\n", "inf\n", "-inf\n"}

\* The hardware status string is none of Full, Discharging and Charging.
HardwareSilent == status \notin {"Full", "Discharging", "Charging"}

\* C8: when the hardware string is none of Full, Discharging and Charging
\* and the tick's percent and the previous one are known, a percent above
\* the previous one yields Charging and one below it Discharging; the
\* previous percent is exactly the percent of the preceding tick.
C8_TrendDecides ==
    [][/\ (TickStep /\ HardwareSilent'
           /\ IsSome(battery_percent') /\ IsSome(prev_battery_percent))
            => /\ Gt(battery_percent', prev_battery_percent)
                    => battery_status' = "Charging"
               /\ Lt(battery_percent', prev_battery_percent)
                    => battery_status' = "Discharging"
       /\ pc = "update" => prev_battery_percent' = battery_percent
       /\ pc # "update" => prev_battery_percent' = prev_battery_percent]_vars

C8_Witness ==
    /\ pc = "publish" /\ HardwareSilent /\ status = "Not charging"
    /\ IsSome(battery_percent) /\ IsSome(prev_battery_percent)
    /\ Lt(battery_percent, prev_battery_percent)
    /\ battery_status = "Discharging"

\* One of the three rules on the hardware string decides battery_status.
HardwareDecides ==
    \/ status \in {"Full", "Discharging"}
    \/ status = "Charging" /\ ac_status = "Connected"

\* The percent trend is inconclusive.
TrendInconclusive ==
    \/ ~IsSome(battery_percent)
    \/ ~IsSome(prev_battery_percent)
    \/ Eq(battery_percent, prev_battery_percent)

\* C9: when the hardware string does not decide and the trend is
\* inconclusive, battery_status is Full if the percent is at least 89.5 and
\* absent otherwise.
C9_NearFullOrAbsent ==
    (BeforeUpdate /\ ~HardwareDecides /\ TrendInconclusive)
        => battery_status =
             IF IsSome(battery_percent) /\ Ge(battery_percent, Fin(1, 179, 2))
             THEN "Full" ELSE NoneStr

C9_Witness ==
    /\ pc = "publish" /\ status = "Not charging"
    /\ IsSome(battery_percent) /\ Eq(battery_percent, Fin(1, 179, 2))
    /\ IsSome(prev_battery_percent) /\ Eq(battery_percent, prev_battery_percent)
    /\ battery_status = "Full"

\* C10: the hardware string Full yields Full and Discharging yields
\* Discharging, whatever the AC status and the trend; Charging yields
\* Charging when the AC status is Connected.
C10_HardwareStringFirst ==
    TickDerived =>
        /\ status = "Full" => battery_status = "Full"
        /\ status = "Discharging" => battery_status = "Discharging"
        /\ (status = "Charging" /\ ac_status = "Connected")
                => battery_status = "Charging"

C10_Witness ==
    /\ pc = "publish" /\ status = "Charging" /\ ac_status = "Connected"
    /\ IsSome(battery_percent) /\ IsSome(prev_battery_percent)
    /\ Lt(battery_percent, prev_battery_percent)
    /\ battery_status = "Charging"

\* C11: prev_ac_status and prev_battery_percent change in no step but the
\* one of lines 402-404, which a tick takes once, after its derivation
\* (line 372), its publishing (lines 374-384) and the test of line 387, and
\* which stores exactly the tick's ac_status and battery_percent, absent
\* ones included; the derivation of a tick reads prev_* as the preceding
\* tick left them.
C11_PrevUpdatedOncePerTick ==
    [][/\ pc = "update"
            => /\ prev_ac_status' = ac_status
               /\ prev_battery_percent' = battery_percent
               /\ pc' = "sleep"
       /\ pc # "update" => UNCHANGED prev
       /\ pc' = "update" => pc = "decide"
       /\ pc' = "decide" => pc = "publish"
       /\ pc' = "publish" => pc = "tick"
       /\ pc = "sleep" => pc' = "tick"
       /\ TickStep
            => /\ battery_status' = BatteryStatus(ac_status', status',
                                       battery_percent', prev_battery_percent)
               /\ ac_status' = AcStatus(pdcs', pdvl', pdam', prev_ac_status,
                                        ac', status')]_vars

C11_Witness ==
    /\ pc = "sleep"
    /\ prev_ac_status = NoneStr /\ ac_status = NoneStr
    /\ ~IsSome(prev_battery_percent) /\ ~IsSome(battery_percent)
    /\ run_vpower.files["battery_status"] # NoFile

\* C12: in a tick whose PD contract status is available, ac_status is
\* decided by the PD readings and the previous AC status alone: it is
\* Disconnected exactly when bit 0 of the status is clear or bit 4 is set,
\* and Connected or Connected slow otherwise, whatever the hardware status
\* string says; the online file is not read in that tick (no read of it is
\* made, so no failure of it is recorded).
C12_PdAloneDecides ==
    [][(TickStep /\ pdcs' # NoneInt)
        => /\ ac_status' = "Disconnected"
                <=> (~PdConnected(pdcs') \/ ~PdSink(pdcs'))
           /\ ac_status' \in {"Disconnected", "Connected", "Connected slow"}
           /\ ac_status' = AcStatusPd(pdcs', pdvl', pdam', prev_ac_status)
           /\ ac' = Unread
           /\ AcPath("online") \in failed' => AcPath("online") \in failed]_vars

C12_Witness ==
    /\ pc = "publish"
    /\ pdcs = 1 /\ status = "Discharging"
    /\ ac = Unread /\ AcPath("online") \notin failed
    /\ ac_status = "Connected"

\* The tick had no PD contract status and read the online file.
NoPdStatus == BeforeUpdate /\ pdcs = NoneInt /\ ac # Unread

\* C13 as stated: without a PD contract status, online 0 yields
\* Disconnected and 1 Connected; without the online file either, the
\* hardware status Full or Charging yields Connected, Discharging yields
\* Disconnected, and any other or absent status yields the AC status
\* "Unknown".  (Fails: the code has no such value, ac_status is None.)
C13_FallbackYieldsUnknown ==
    NoPdStatus
        => /\ ac = "0" => ac_status = "Disconnected"
           /\ ac = "1" => ac_status = "Connected"
           /\ ac = NoneStr
                => ac_status =
                     IF status \in {"Full", "Charging"} THEN "Connected"
                     ELSE IF status = "Discharging" THEN "Disconnected"
                     ELSE "Unknown"

\* C13 amended: without a PD contract status, online 0 yields Disconnected
\* and 1 Connected (any other content of the file yields Disconnected);
\* when the online file cannot be read either, the hardware status Full or
\* Charging yields Connected, Discharging yields Disconnected, and any
\* other or absent status leaves ac_status absent.
C13_FallbackYieldsAbsent ==
    NoPdStatus
        => /\ ac = "0" => ac_status = "Disconnected"
           /\ ac = "1" => ac_status = "Connected"
           /\ ac \notin {"0", "1", NoneStr} => ac_status = "Disconnected"
           /\ ac = NoneStr
                => ac_status =
                     IF status \in {"Full", "Charging"} THEN "Connected"
                     ELSE IF status = "Discharging" THEN "Disconnected"
                     ELSE NoneStr

C13_Witness ==
    /\ pc = "publish" /\ pdcs = NoneInt
    /\ ac = NoneStr /\ status = "Unknown"
    /\ ac_status = NoneStr

\* C14: while the writes of a tick are taken one file system call at a
\* time, and after the process is killed between any two of them, the
\* file of every key is absent or holds a whole value, never a partial
\* one; the file of the key being written holds what it held when the
\* write began or the whole new value; and no read of a key's file by
\* another process returns a partial content.
C14_ReaderSeesWholeValue ==
    /\ \A key \in Keys : run_vpower.files[key] # Partial
    /\ seen.text # Partial
    /\ (pc \in {"publish", "interrupted"} /\ wstep # "idle")
            => run_vpower.files[KeyOrder[wkey]]
                    \in {wold, TextOf(KeyOrder[wkey])}

C14_Witness ==
    /\ pc = "interrupted" /\ wstep = "write"
    /\ KeyOrder[wkey] = "ac_status"
    /\ run_vpower.files[Dot("ac_status")] = Partial
    /\ wold = "Connected\n" /\ ac_status = "Connected slow"
    /\ seen = [key |-> "ac_status", text |-> "Connected\n"]

\* C15: the writes of a tick leave alone the file (and the temporary file)
\* of every key whose derived value is absent, so that it stays as the last
\* write of a value left it, or non-existent; a tick all of whose values
\* are absent changes nothing of /run/vpower, the directory included.
C15_AbsentValueNoWrite ==
    [][pc = "publish"
        => /\ \A key \in Keys :
                ValueOf(key) = NoneStr
                    => /\ run_vpower'.files[key] = run_vpower.files[key]
                       /\ run_vpower'.files[Dot(key)]
                            = run_vpower.files[Dot(key)]
           /\ (\A key \in Keys : ValueOf(key) = NoneStr)
                => run_vpower' = run_vpower]_vars

C15_Witness ==
    /\ pc = "decide"
    /\ ac_status = NoneStr
    /\ run_vpower.files["ac_status"] = "Connected slow\n"
    /\ IsSome(battery_percent)
    /\ run_vpower.files["battery_percent"] = TextOf("battery_percent")

\* C16 as stated: a secs_until_battery_full or secs_until_shutdown_request
\* that a tick hands to the publisher is finite and at least 0, whatever
\* the readings; a projection that would not be finite is absent.  (Fails:
\* the quotient by power_now is published as it comes out: an infinity or
\* a NaN when power_now is 0, negative when power_now is negative or
\* charge_now is above charge_full.)
C16_ProjectionsFiniteNonNegative ==
    TickDerived
        => /\ IsSome(secs_until_battery_full)
                => /\ IsFinite(secs_until_battery_full)
                   /\ Ge(secs_until_battery_full, Num(0))
           /\ IsSome(secs_until_shutdown_request)
                => /\ IsFinite(secs_until_shutdown_request)
                   /\ Ge(secs_until_shutdown_request, Num(0))

\* C17: the reads of a tick report the failure of a path exactly when the
\* read of it fails and no earlier read of it had failed, be it a string
\* or a numeric read; every path that fails is recorded, each on its own,
\* and stays recorded; so a path is reported on its first failed read and
\* never after.  No other step reports or records a failure.
C17_MissingReportedOnce ==
    [][/\ pc = "tick"
            => /\ stderr_missing' = read_errs' \ failed
               /\ failed' = failed \cup read_errs'
       /\ pc # "tick"
            => /\ failed' = failed
               /\ stderr_missing' \subseteq stderr_missing]_vars

C17_Witness ==
    /\ pc = "publish"
    /\ read_errs = {BatPath("status"), BatPath("power_now"), AcPath("online")}
    /\ stderr_missing = {BatPath("power_now")}
    /\ failed = read_errs

\* The PD status reports connected and sink, and the PD voltage or the PD
\* current is not available.
PdPowerUnknown ==
    /\ pdcs # NoneInt /\ PdConnected(pdcs) /\ PdSink(pdcs)
    /\ ~IsSome(pdvl) \/ ~IsSome(pdam)

\* C18: when the PD status reports connected and sink and the PD voltage
\* (withheld when the firmware version is unknown or at most 45096) or the
\* PD current is not available, the PD power is 0 and ac_status is
\* Connected, whatever the previous AC status.
C18_NoPdPowerIsConnected ==
    /\ (BeforeUpdate /\ PdPowerUnknown)
            => /\ Eq(PdPower(pdvl, pdam), Num(0))
               /\ ac_status = "Connected"
    /\ \A fw \in {Missing, Garbage, IntFile(0), IntFile(PdvlBuggedFirmware)} :
            Pdvl(sensors, fw, SensorVal(Num(5))) = None

C18_Witness ==
    /\ pc = "publish" /\ PdPowerUnknown
    /\ ~IsSome(pdvl) /\ IsSome(pdam)
    /\ prev_ac_status = "Connected slow"
    /\ ac_status = "Connected"

\* C19 as stated: the controller leaves Armed only in a tick with
\* charge_now <= charge_shutdown and an AC status other than Connected; no
\* tick with charge_now > charge_shutdown triggers the shutdown, whatever
\* voltage_min_design and power_now are.  (Fails: above the threshold the
\* projection is 0.0 when voltage_min_design is 0, and 0.0 triggers.)
C19_TriggerOnlyAtOrBelowThreshold ==
    LeftArmed => (AtOrBelowThreshold /\ ac_status # "Connected")

\* C20: in a tick with charge_now <= charge_shutdown and
\* voltage_min_design and power_now present, every AC status other than
\* exactly "Connected" ("Connected slow", absent, "Disconnected") yields
\* secs_until_shutdown_request = 0.0 and the controller leaves Armed in
\* that tick.
C20_OnlyConnectedSuppresses ==
    (TickDerived /\ AtOrBelowThreshold /\ ProjectionOperands
     /\ ac_status \in {"Connected slow", NoneStr, "Disconnected"})
        => /\ IsSome(secs_until_shutdown_request)
           /\ Eq(secs_until_shutdown_request, Num(0))
           /\ ForceShutdown(secs_until_shutdown_request)
           /\ ~StayedArmed

C20_Witness ==
    /\ pc = "poweroff"
    /\ ac_status = "Connected slow"
    /\ IsSome(charge_now) /\ IsSome(charge_shutdown)
    /\ Lt(charge_now, charge_shutdown) /\ ProjectionOperands
    /\ Eq(secs_until_shutdown_request, Num(0))

\* One of the operands of the shutdown projection is absent.
OperandAbsent ==
    \/ ~IsSome(charge_now) \/ ~IsSome(charge_full)
    \/ ~IsSome(voltage_min_design) \/ ~IsSome(power_now)

\* C21: in every tick in which charge_now, charge_full,
\* voltage_min_design or the derived power_now is absent,
\* secs_until_shutdown_request is absent and the controller does not leave
\* Armed, also when charge_now is known to be at or below charge_shutdown
\* and the AC status is Disconnected; a tick that got through its
\* derivation goes on to update prev_* and to sleep.
C21_AbsentOperandStaysArmed ==
    (pc # "tick" /\ OperandAbsent)
        => /\ ~IsSome(secs_until_shutdown_request)
           /\ ~ForceShutdown(secs_until_shutdown_request)
           /\ ~LeftArmed
           /\ TickDerived => pc \in {"publish", "decide", "update", "sleep"}

C21_Witness ==
    /\ pc = "update"
    /\ AtOrBelowThreshold /\ ac_status = "Disconnected"
    /\ ~IsSome(voltage_min_design) /\ IsSome(power_now)
    /\ ~IsSome(secs_until_shutdown_request)

\* Every key with a derived value holds that value.
AllPublished ==
    \A key \in Keys :
        ValueOf(key) # NoneStr => run_vpower.files[key] = TextOf(key)

\* C22: the writes of a tick come before its force-shutdown test: where
\* the file system calls of the writes succeed, every derived value of the
\* tick is in its key's file when the test is made, and so, in a
\* triggering tick, when the grace period starts (the file
\* secs_until_shutdown_request then holds the 0 that triggers); from the
\* test on, a triggering tick writes no file, does not update prev_* and
\* does not reach the sleep of line 407 or another tick.
C22_PublishBeforeShutdown ==
    [][/\ pc' = "decide" => pc = "publish"
       /\ pc' = "grace" => (pc = "decide" /\ AllPublished)
       /\ pc = "decide"
            => /\ AllPublished
               /\ UNCHANGED <<run_vpower, prev, derived>>
               /\ ForceShutdown(secs_until_shutdown_request) => pc' = "grace"
       /\ LeftArmed
            => /\ AllPublished
               /\ run_vpower.files["secs_until_shutdown_request"]
                    \in {"0\n", "-0\n"}
               /\ UNCHANGED <<run_vpower, prev, derived>>
               /\ pc' \in {"poweroff", "exited", "panicked"}]_vars

C22_Witness ==
    /\ pc = "grace"
    /\ run_vpower.files["secs_until_shutdown_request"] = "0\n"
    /\ ac_status = "Connected slow"
    /\ run_vpower.files["ac_status"] = "Connected slow\n"
    /\ prev_ac_status = NoneStr
    /\ IsSome(battery_percent) /\ IsSome(prev_battery_percent)
    /\ prev_battery_percent # battery_percent
    /\ run_vpower.files["battery_percent"] = TextOf("battery_percent")

====
